---------------------------- MODULE Spec2Model ----------------------------
(***************************************************************************)
(* Model of the letter synchronization engine of StudySync                 *)
(* (src/core/sync.py, class SyncManager) and of the threads that call it   *)
(* (src/nova_app.py, src/ui/desktop.py).                                   *)
(*                                                                         *)
(* A file is a record [c |-> content, m |-> modification time]; c = 0      *)
(* stands for "no such file".  Content equality stands for equality of     *)
(* the md5 digests computed by _get_file_hash.  shutil.copy2 copies the    *)
(* content and the modification time of its source.                        *)
(*                                                                         *)
(* Specifications:                                                         *)
(*   Spec        calls of the engine as single steps, store always there   *)
(*   SpecThreads two threads inside bidirectional_sync, phase by phase     *)
(*   SpecStore   Spec plus a shared folder that is unset or disappears     *)
(*   SpecCrash   Spec plus copies that are cut short                       *)
(*   SpecLoop    the thread of _sync_loop, statement by statement          *)
(***************************************************************************)
EXTENDS Integers, FiniteSets, Sequences, TLC

\* ------------------------------------------------------------- bounds
MaxTime == 1
MaxEdits == 2

Dates == {"20250605"}
Exts == {"html", "md"}
Files == Dates \X Exts
Contents == {1, 2}
Times == 0..MaxTime
Runners == {"loop", "main"}

NoFile == [c |-> 0, m |-> 0]
FileVals == [c : Contents, m : Times]
Exists(x) == x.c # 0

\* Keys of last_sync_times: a bare file name for the user's own letters,
\* "<username>/<filename>" for community letters.
Other == "bob"
\* config['username']: a name, or the empty string.
Me == "alice"
Usernames == {Me, ""}
BareKey(f) == <<"", f>>
UserKey(u, f) == <<u, f>>
Keys == {"", Other} \X Files
NoEntry == -1
NoKey == <<"none", <<"", "">> >>

\* The content of a file that shutil.copy2 began to write and did not finish.
Partial == 3

\* sync_frequency_minutes as the settings page can store it, and the
\* factor of "* 60  # Convert to seconds".
Minutes == {1, 2}
SecondsPerMinute == 60

VARIABLES
    now,              \* time.time()
    local,            \* local_folder/<filename>
    shared,           \* shared_folder/<username>/<filename>
    foreign,          \* shared_folder/bob/<filename>
    mirror,           \* local_folder/_community/bob/<filename>
    localBackup,      \* local_folder/<filename>.local_backup
    sharedBackup,     \* shared_folder/<username>/<filename>.shared_backup
    last_sync_times,  \* SyncManager.last_sync_times
    pc,               \* where each thread is inside bidirectional_sync
    run,              \* the files counted by the current/last run of each thread
    outcome,          \* how the last bidirectional_sync of each thread ended
    mode,             \* history: was the run undisturbed ("solo"), and did it
                      \* directly follow another undisturbed run ("repeat")
    pre,              \* history: Local, SharedOwn and the mirror when the run began
    failedAt,         \* history: the document whose file operation raised
    edits,            \* number of external edits so far
    store,            \* self.shared_folder: "ok", "missing" (path does not
                      \* exist) or "unset" (empty string)
    result,           \* what the last bidirectional_sync of each thread
                      \* gave its caller: "True", "False" or "raised"
    api,              \* history: the last sync_letter / unsync_letter call
    torn,             \* history: the copy that was cut short
    lpc,              \* where the thread of _sync_loop is
    stop_event,       \* self.stop_event.is_set()
    sync_frequency,   \* self.sync_frequency, in seconds
    sync_frequency_minutes,  \* config['sync_frequency_minutes']
    elapsed,          \* time.time() - start_time, in seconds
    tickConfig,       \* history: config['sync_frequency_minutes'] when the
                      \* current iteration of the loop began
    stopIn,           \* history: where the loop was when stop_event was set
    sleptAfterStop,   \* history: time.sleep(1) calls that returned after that
    syncsAfterStop,   \* history: bidirectional_sync calls begun after that
    username,         \* self.username
    job,              \* per thread: the own letter whose pull is under way
    lpc2,             \* the thread of a further call of start_sync_loop
    joined            \* stop_sync_loop has returned

loopVars == <<lpc, stop_event, sync_frequency, sync_frequency_minutes, elapsed,
              tickConfig, stopIn, sleptAfterStop, syncsAfterStop, lpc2, joined>>

vars == <<now, local, shared, foreign, mirror, localBackup, sharedBackup,
          last_sync_times, pc, run, outcome, mode, pre, failedAt, edits,
          store, result, api, torn, username, job, loopVars>>

\* ------------------------------------------------------ engine state
\* The part of the state a phase reads and writes, as one record.
Cur(r) == [local |-> local, shared |-> shared, foreign |-> foreign,
           mirror |-> mirror, localBackup |-> localBackup,
           sharedBackup |-> sharedBackup, lst |-> last_sync_times,
           username |-> username,
           pushed |-> run[r].pushed, pulled |-> run[r].pulled,
           conflicts |-> run[r].conflicts]

NoRun == [pushed |-> {}, pulled |-> {}, conflicts |-> {}]

NoCall == [op |-> "none", d |-> "", ret |-> FALSE]
NoTorn == [side |-> "none", f |-> <<"", "">>, c |-> 0]
NoJob == [f |-> <<"", "">>, loser |-> NoFile]

\* Variant of Accessible that only tests that a path is configured.
Accessible_configured == store # "unset"

\* The negation of the test every entry point begins with:
\* "not self.shared_folder or not os.path.exists(self.shared_folder)".
Accessible == store = "ok"

\* Variant of needs_sync comparing with >= where the code compares with >.
needs_sync_ge(src, dst, f, lst) ==
    IF ~Exists(dst) THEN TRUE
    ELSE IF lst[BareKey(f)] # NoEntry
         THEN src.m >= lst[BareKey(f)] /\ src.m >= dst.m
         ELSE src.m >= dst.m

\* ------------------------------------------------ file names
\* A file name of a letter folder: "nova_letter_<date>.<ext>", or that name
\* with ".local_backup" or ".shared_backup" appended (tag).
Tags == {"", "local_backup", "shared_backup"}
Name(f, tag) == [prefix |-> "nova_letter_", date |-> f[1], ext |-> f[2], tag |-> tag]

\* What the name ends with, after its last dot.
Ending(n) == IF n.tag # "" THEN n.tag ELSE n.ext

\* Variant of _is_letter_file that tests the prefix only.
is_letter_file_prefix_only(n) == n.prefix = "nova_letter_"

\* _is_letter_file: startswith("nova_letter_") and endswith ".html" or ".md".
is_letter_file(n) ==
    n.prefix = "nova_letter_" /\ Ending(n) \in {"html", "md"}

\* The names for which the loops of the phases run their body
\* ("if not self._is_letter_file(filename): continue").
Letters == {f \in Files : is_letter_file(Name(f, ""))}

\* os.listdir of local_folder, of shared_folder/<username> and of
\* shared_folder/bob: the letters and the backup files they hold.
listdir_local(s) ==
    {Name(f, "") : f \in {g \in Files : Exists(s.local[g])}}
        \cup {Name(f, "local_backup") : f \in {g \in Files : Exists(s.localBackup[g])}}

listdir_user(s) ==
    {Name(f, "") : f \in {g \in Files : Exists(s.shared[g])}}
        \cup {Name(f, "shared_backup") : f \in {g \in Files : Exists(s.sharedBackup[g])}}

listdir_other(s) == {Name(f, "") : f \in {g \in Files : Exists(s.foreign[g])}}

\* Variant of needs_sync that never looks at the ledger.
needs_sync_no_ledger(src, dst, f, lst) ==
    IF ~Exists(dst) THEN TRUE ELSE src.m > dst.m

\* _needs_sync: the ledger is looked up under os.path.basename(source_path).
needs_sync(src, dst, f, lst) ==
    IF ~Exists(dst) THEN TRUE
    ELSE IF lst[BareKey(f)] # NoEntry
         THEN src.m > lst[BareKey(f)] /\ src.m > dst.m
         ELSE src.m > dst.m


\* ------------------------------------------------ Phase A: local -> shared
\* Variant of push_file that copies the letter without counting it.
push_file_uncounted(s, t, f) ==
    IF Exists(s.local[f]) /\ needs_sync(s.local[f], s.shared[f], f, s.lst)
    THEN [s EXCEPT !.shared[f] = s.local[f],
                   !.lst[BareKey(f)] = t]
    ELSE s

\* The loop body of _sync_local_to_shared for one listed file name.
push_file(s, t, f) ==
    IF f \in Letters /\ Exists(s.local[f]) /\ needs_sync(s.local[f], s.shared[f], f, s.lst)
    THEN [s EXCEPT !.shared[f] = s.local[f],
                   !.lst[BareKey(f)] = t,
                   !.pushed = @ \cup {f}]
    ELSE s

RECURSIVE sync_local_to_shared(_, _, _)
sync_local_to_shared(s, t, todo) ==
    IF todo = {} THEN s
    ELSE LET f == CHOOSE x \in todo : TRUE
         IN  sync_local_to_shared(push_file(s, t, f), t, todo \ {f})

\* ------------------------------------------------ Phase B: shared -> local
\* Variant of pull_own_file that never restores a letter missing locally.
pull_own_file_existing_only(s, t, f) ==
    IF Exists(s.shared[f]) /\ Exists(s.local[f])
       /\ s.shared[f].c # s.local[f].c /\ s.shared[f].m > s.local[f].m
    THEN [s EXCEPT !.localBackup[f] = s.local[f],
                   !.local[f] = s.shared[f],
                   !.lst[BareKey(f)] = t,
                   !.pulled = @ \cup {BareKey(f)}]
    ELSE s

\* Variant of pull_own_file that leaves a letter present on both sides to
\* the conflict phase.
pull_own_file_missing_only(s, t, f) ==
    IF Exists(s.shared[f]) /\ ~Exists(s.local[f])
    THEN [s EXCEPT !.local[f] = s.shared[f],
                   !.lst[BareKey(f)] = t,
                   !.pulled = @ \cup {BareKey(f)}]
    ELSE s

\* Variant of pull_own_file that writes the backup after the overwrite.
pull_own_file_backup_after(s, t, f) ==
    IF ~Exists(s.shared[f]) THEN s
    ELSE IF Exists(s.local[f])
         THEN IF s.shared[f].c # s.local[f].c /\ s.shared[f].m > s.local[f].m
              THEN [s EXCEPT !.localBackup[f] = s.shared[f],
                             !.local[f] = s.shared[f],
                             !.lst[BareKey(f)] = t,
                             !.pulled = @ \cup {BareKey(f)}]
              ELSE s
         ELSE [s EXCEPT !.local[f] = s.shared[f],
                        !.lst[BareKey(f)] = t,
                        !.pulled = @ \cup {BareKey(f)}]

\* Variant of pull_own_file that removes from SharedOwn a letter that is
\* missing in Local.
pull_own_file_propagates_delete(s, t, f) ==
    IF ~Exists(s.shared[f]) THEN s
    ELSE IF Exists(s.local[f])
         THEN IF s.shared[f].c # s.local[f].c /\ s.shared[f].m > s.local[f].m
              THEN [s EXCEPT !.localBackup[f] = s.local[f],
                             !.local[f] = s.shared[f],
                             !.lst[BareKey(f)] = t,
                             !.pulled = @ \cup {BareKey(f)}]
              ELSE s
         ELSE [s EXCEPT !.shared[f] = NoFile,
                        !.lst[BareKey(f)] = t,
                        !.pulled = @ \cup {BareKey(f)}]

\* The branch username == self.username of _sync_shared_to_local.
pull_own_file(s, t, f) ==
    IF f \notin Letters \/ ~Exists(s.shared[f]) THEN s
    ELSE IF Exists(s.local[f])
         THEN IF s.shared[f].c # s.local[f].c /\ s.shared[f].m > s.local[f].m
              THEN [s EXCEPT !.localBackup[f] = s.local[f],
                             !.local[f] = s.shared[f],
                             !.lst[BareKey(f)] = t,
                             !.pulled = @ \cup {BareKey(f)}]
              ELSE s
         ELSE [s EXCEPT !.local[f] = s.shared[f],
                        !.lst[BareKey(f)] = t,
                        !.pulled = @ \cup {BareKey(f)}]

\* Variant of mirror_file with the arguments of shutil.copy2 exchanged.
mirror_file_reversed(s, t, f) ==
    IF Exists(s.foreign[f]) /\ Exists(s.mirror[f])
       /\ needs_sync(s.foreign[f], s.mirror[f], f, s.lst)
    THEN [s EXCEPT !.foreign[f] = s.mirror[f],
                   !.lst[UserKey(Other, f)] = t,
                   !.pulled = @ \cup {UserKey(Other, f)}]
    ELSE s

\* The branch for another user's folder: mirrored under _community/<username>.
mirror_file(s, t, f) ==
    IF f \in Letters /\ Exists(s.foreign[f]) /\ needs_sync(s.foreign[f], s.mirror[f], f, s.lst)
    THEN [s EXCEPT !.mirror[f] = s.foreign[f],
                   !.lst[UserKey(Other, f)] = t,
                   !.pulled = @ \cup {UserKey(Other, f)}]
    ELSE s

\* os.listdir(shared_folder) yields a folder with username == self.username.
\* With self.username empty it yields none: user_folder is then the shared
\* folder itself, whose letters are not directories.
own_folder_listed(s) == s.username # ""

RECURSIVE pull_own_folder(_, _, _)
pull_own_folder(s, t, todo) ==
    IF todo = {} \/ ~own_folder_listed(s) THEN s
    ELSE LET f == CHOOSE x \in todo : TRUE
         IN  pull_own_folder(pull_own_file(s, t, f), t, todo \ {f})

RECURSIVE mirror_folder(_, _, _)
mirror_folder(s, t, todo) ==
    IF todo = {} THEN s
    ELSE LET f == CHOOSE x \in todo : TRUE
         IN  mirror_folder(mirror_file(s, t, f), t, todo \ {f})

\* os.listdir(shared_folder) yields the user folders in an arbitrary order:
\* ownFirst says whether the user's own folder comes before bob's.
sync_shared_to_local(s, t, ownFirst, ownTodo, otherTodo) ==
    IF ownFirst
    THEN mirror_folder(pull_own_folder(s, t, ownTodo), t, otherTodo)
    ELSE pull_own_folder(mirror_folder(s, t, otherTodo), t, ownTodo)

\* ------------------------------------------------ Phase C: conflicts
\* Variant of resolve_file in which the shared copy wins a tie.
resolve_file_ge(s, t, f) ==
    IF Exists(s.local[f]) /\ Exists(s.shared[f]) /\ s.local[f].c # s.shared[f].c
    THEN IF s.shared[f].m >= s.local[f].m
         THEN [s EXCEPT !.localBackup[f] = s.local[f],
                        !.local[f] = s.shared[f],
                        !.conflicts = @ \cup {f},
                        !.lst[BareKey(f)] = t]
         ELSE [s EXCEPT !.sharedBackup[f] = s.shared[f],
                        !.shared[f] = s.local[f],
                        !.conflicts = @ \cup {f},
                        !.lst[BareKey(f)] = t]
    ELSE s

\* Variant of resolve_file without the comparison of the two hashes.
resolve_file_no_hash(s, t, f) ==
    IF Exists(s.local[f]) /\ Exists(s.shared[f])
    THEN IF s.shared[f].m > s.local[f].m
         THEN [s EXCEPT !.localBackup[f] = s.local[f],
                        !.local[f] = s.shared[f],
                        !.conflicts = @ \cup {f},
                        !.lst[BareKey(f)] = t]
         ELSE [s EXCEPT !.sharedBackup[f] = s.shared[f],
                        !.shared[f] = s.local[f],
                        !.conflicts = @ \cup {f},
                        !.lst[BareKey(f)] = t]
    ELSE s

\* Variant of resolve_file that does not write the ledger.
resolve_file_no_ledger(s, t, f) ==
    IF Exists(s.local[f]) /\ Exists(s.shared[f]) /\ s.local[f].c # s.shared[f].c
    THEN IF s.shared[f].m > s.local[f].m
         THEN [s EXCEPT !.localBackup[f] = s.local[f],
                        !.local[f] = s.shared[f],
                        !.conflicts = @ \cup {f}]
         ELSE [s EXCEPT !.sharedBackup[f] = s.shared[f],
                        !.shared[f] = s.local[f],
                        !.conflicts = @ \cup {f}]
    ELSE s

\* Variant of resolve_file that copies the content without the
\* modification time (shutil.copyfile for shutil.copy2).
resolve_file_content_only(s, t, f) ==
    IF Exists(s.local[f]) /\ Exists(s.shared[f]) /\ s.local[f].c # s.shared[f].c
    THEN IF s.shared[f].m > s.local[f].m
         THEN [s EXCEPT !.localBackup[f] = s.local[f],
                        !.local[f] = [c |-> s.shared[f].c, m |-> t],
                        !.conflicts = @ \cup {f},
                        !.lst[BareKey(f)] = t]
         ELSE [s EXCEPT !.sharedBackup[f] = s.shared[f],
                        !.shared[f] = [c |-> s.local[f].c, m |-> t],
                        !.conflicts = @ \cup {f},
                        !.lst[BareKey(f)] = t]
    ELSE s

\* The loop body of _detect_and_resolve_conflicts for one listed file name.
resolve_file(s, t, f) ==
    IF f \in Letters /\ Exists(s.local[f]) /\ Exists(s.shared[f])
       /\ s.local[f].c # s.shared[f].c
    THEN IF s.shared[f].m > s.local[f].m
         THEN [s EXCEPT !.localBackup[f] = s.local[f],
                        !.local[f] = s.shared[f],
                        !.conflicts = @ \cup {f},
                        !.lst[BareKey(f)] = t]
         ELSE [s EXCEPT !.sharedBackup[f] = s.shared[f],
                        !.shared[f] = s.local[f],
                        !.conflicts = @ \cup {f},
                        !.lst[BareKey(f)] = t]
    ELSE s

RECURSIVE detect_and_resolve_conflicts(_, _, _)
detect_and_resolve_conflicts(s, t, todo) ==
    IF todo = {} THEN s
    ELSE LET f == CHOOSE x \in todo : TRUE
         IN  detect_and_resolve_conflicts(resolve_file(s, t, f), t, todo \ {f})

\* ------------------------------------------------ single-letter operations
\* sync_letter: the .html file if it exists, else the .md file.
letter_path(loc, d) ==
    IF Exists(loc[<<d, "html">>]) THEN <<d, "html">>
    ELSE IF Exists(loc[<<d, "md">>]) THEN <<d, "md">>
    ELSE <<d, "">>

\* Variant of sync_letter that copies only when _needs_sync says so.
sync_letter_if_needed(s, t, d) ==
    LET f == letter_path(s.local, d)
    IN  IF f[2] = "" \/ ~needs_sync(s.local[f], s.shared[f], f, s.lst) THEN s
        ELSE [s EXCEPT !.shared[f] = s.local[f], !.lst[BareKey(f)] = t]

\* Variant of sync_letter that copies every serialization of the date.
sync_letter_every_format(s, t, d) ==
    LET copy(u, f) == IF Exists(u.local[f])
                      THEN [u EXCEPT !.shared[f] = u.local[f], !.lst[BareKey(f)] = t]
                      ELSE u
    IN  copy(copy(s, <<d, "html">>), <<d, "md">>)

sync_letter(s, t, d) ==
    LET f == letter_path(s.local, d)
    IN  IF f[2] = "" THEN s
        ELSE [s EXCEPT !.shared[f] = s.local[f], !.lst[BareKey(f)] = t]

\* Variant of unsync_file that drops the ledger entry in every case.
unsync_file_forgets_entry(s, f) ==
    IF Exists(s.shared[f])
    THEN [s EXCEPT !.shared[f] = NoFile, !.lst[BareKey(f)] = NoEntry]
    ELSE [s EXCEPT !.lst[BareKey(f)] = NoEntry]

\* Variant of unsync_file that removes the Local letter as well.
unsync_file_everywhere(s, f) ==
    IF Exists(s.shared[f])
    THEN [s EXCEPT !.shared[f] = NoFile, !.local[f] = NoFile,
                   !.lst[BareKey(f)] = NoEntry]
    ELSE s

\* One of the two os.remove blocks of unsync_letter.
unsync_file(s, f) ==
    IF Exists(s.shared[f])
    THEN [s EXCEPT !.shared[f] = NoFile, !.lst[BareKey(f)] = NoEntry]
    ELSE s

unsync_letter(s, d) == unsync_file(unsync_file(s, <<d, "html">>), <<d, "md">>)


\* ------------------------------------------------ initial state
Empty == [f \in Files |-> NoFile]
NoSnap == [local |-> Empty, shared |-> Empty, mirror |-> Empty]
AllDirty == [r \in Runners |-> "dirty"]

\* No thread of _sync_loop has been started.
InitLoopOff ==
    /\ lpc = "off"
    /\ stop_event = FALSE
    /\ sync_frequency_minutes \in Minutes
    /\ sync_frequency = sync_frequency_minutes * SecondsPerMinute
    /\ elapsed = 0
    /\ tickConfig = sync_frequency_minutes
    /\ stopIn = "none"
    /\ sleptAfterStop = 0
    /\ syncsAfterStop = 0
    /\ lpc2 = "off"
    /\ joined = FALSE

InitRest ==
    /\ now = 0
    /\ shared = Empty
    /\ foreign = Empty
    /\ mirror = Empty
    /\ localBackup = Empty
    /\ sharedBackup = Empty
    /\ last_sync_times = [k \in Keys |-> NoEntry]
    /\ pc = [r \in Runners |-> "idle"]
    /\ run = [r \in Runners |-> NoRun]
    /\ outcome = [r \in Runners |-> "none"]
    /\ mode = AllDirty
    /\ pre = NoSnap
    /\ failedAt = [r \in Runners |-> NoKey]
    /\ edits = 0
    /\ result = [r \in Runners |-> "none"]
    /\ api = NoCall
    /\ torn = NoTorn
    /\ job = [r \in Runners |-> NoJob]

Init ==
    /\ InitRest
    /\ local = Empty
    /\ store = "ok"
    /\ username = Me
    /\ InitLoopOff
    /\ sync_frequency_minutes = 1

\* The state a phase leaves behind, written back.
Install(r, s) ==
    /\ local' = s.local
    /\ shared' = s.shared
    /\ foreign' = s.foreign
    /\ mirror' = s.mirror
    /\ localBackup' = s.localBackup
    /\ sharedBackup' = s.sharedBackup
    /\ last_sync_times' = s.lst
    /\ run' = [run EXCEPT ![r] = [pushed |-> s.pushed, pulled |-> s.pulled,
                                  conflicts |-> s.conflicts]]

Active == {r \in Runners : pc[r] # "idle"}

\* An undisturbed run has just completed and nothing has changed since.
Fresh == \E r \in Runners : pc[r] = "idle" /\ outcome[r] = "ok" /\ mode[r] # "dirty"

\* ------------------------------------------------ bidirectional_sync
\* The three phases in order, for one listing order of the shared folder.
bidirectional_sync(s, t, ownFirst) ==
    detect_and_resolve_conflicts(
        sync_shared_to_local(sync_local_to_shared(s, t, Files),
                             t, ownFirst, Files, Files),
        t, Files)

\* The state a call starts from: the counters of the three phases are 0.
Entry == [local |-> local, shared |-> shared, foreign |-> foreign,
          mirror |-> mirror, localBackup |-> localBackup,
          sharedBackup |-> sharedBackup, lst |-> last_sync_times,
          username |-> username,
          pushed |-> {}, pulled |-> {}, conflicts |-> {}]

\* History kept when thread r enters bidirectional_sync.
Enter(r) ==
    /\ mode' = IF Active = {}
               THEN [q \in Runners |->
                        IF q = r THEN (IF Fresh THEN "repeat" ELSE "solo")
                        ELSE "dirty"]
               ELSE AllDirty
    /\ pre' = IF Active = {}
              THEN [local |-> local, shared |-> shared, mirror |-> mirror]
              ELSE NoSnap

\* "if local_to_shared_count > 0 or shared_to_local_count > 0 or
\* conflicts_count > 0: return True ... return False".
return_value(s) ==
    IF s.pushed # {} \/ s.pulled # {} \/ s.conflicts # {} THEN "True" ELSE "False"

\* Variant of try_block in which only the first phase is inside the try.
try_block_first_phase_only(phase) == phase = "A"

\* The try statement of bidirectional_sync encloses the calls of all three
\* phases; what is raised inside it is caught by "except Exception".
try_block(phase) == phase \in {"A", "B", "C"}

\* One whole call of bidirectional_sync by thread r, no exception raised.
Returns(r) ==
    /\ pc[r] = "idle"
    /\ Accessible
    /\ \E ownFirst \in BOOLEAN :
          LET s == bidirectional_sync(Entry, now, ownFirst)
          IN  /\ Install(r, s)
              /\ result' = [result EXCEPT ![r] = return_value(s)]
    /\ outcome' = [outcome EXCEPT ![r] = "ok"]
    /\ failedAt' = [failedAt EXCEPT ![r] = NoKey]
    /\ Enter(r)
    /\ api' = NoCall
    /\ UNCHANGED <<now, pc, edits, store, username, job, torn>>

\* A file operation on document k raises in the given phase: the exception
\* leaves the phase and, inside the try block, is caught by the except
\* clause of bidirectional_sync, which returns False.
Raise(r, k, phase) ==
    /\ outcome' = [outcome EXCEPT ![r] = "error"]
    /\ failedAt' = [failedAt EXCEPT ![r] = k]
    /\ result' = [result EXCEPT ![r] =
                     IF try_block(phase) THEN "False" ELSE "raised"]
    /\ Enter(r)
    /\ api' = NoCall
    /\ UNCHANGED <<now, pc, edits, store, username, job, torn>>

\* One whole call in which a file operation on a listed file f raises in
\* Phase A, B or C; done are the files the loop visited before f
\* (os.listdir returns the names in an arbitrary order).
RaisesA(r) ==
    /\ pc[r] = "idle"
    /\ Accessible
    /\ \E f \in Files : \E done \in SUBSET (Files \ {f}) :
          /\ Exists(local[f])
          /\ Install(r, sync_local_to_shared(Entry, now, done))
          /\ Raise(r, BareKey(f), "A")

RaisesB(r) ==
    /\ pc[r] = "idle"
    /\ Accessible
    /\ \E f \in Files : \E done \in SUBSET (Files \ {f}) : \E ownFirst \in BOOLEAN :
          LET a == sync_local_to_shared(Entry, now, Files)
          IN  \/ /\ own_folder_listed(a)
                 /\ Exists(a.shared[f])
                 /\ Install(r, sync_shared_to_local(a, now, ownFirst, done,
                                    IF ownFirst THEN {} ELSE Files))
                 /\ Raise(r, BareKey(f), "B")
              \/ /\ Exists(a.foreign[f])
                 /\ Install(r, sync_shared_to_local(a, now, ownFirst,
                                    IF ownFirst THEN Files ELSE {}, done))
                 /\ Raise(r, UserKey(Other, f), "B")

RaisesC(r) ==
    /\ pc[r] = "idle"
    /\ Accessible
    /\ \E f \in Files : \E done \in SUBSET (Files \ {f}) : \E ownFirst \in BOOLEAN :
          LET b == sync_shared_to_local(sync_local_to_shared(Entry, now, Files),
                                        now, ownFirst, Files, Files)
          IN  /\ Exists(b.local[f]) /\ Exists(b.shared[f])
              /\ Install(r, detect_and_resolve_conflicts(b, now, done))
              /\ Raise(r, BareKey(f), "C")

\* One whole call with the shared folder unset or missing: "Shared folder
\* not configured or not accessible", return False before the try statement.
ReturnsEarly(r) ==
    /\ pc[r] = "idle"
    /\ ~Accessible
    /\ result' = [result EXCEPT ![r] = "False"]
    /\ outcome' = [outcome EXCEPT ![r] = "unavailable"]
    /\ failedAt' = [failedAt EXCEPT ![r] = NoKey]
    /\ run' = [run EXCEPT ![r] = NoRun]
    /\ Enter(r)
    /\ api' = NoCall
    /\ UNCHANGED <<now, local, shared, foreign, mirror, localBackup,
                   sharedBackup, last_sync_times, pc, edits, store, username, job, torn>>

\* The calls made by a caller other than the thread of _sync_loop.
RunOnce(r) == Returns(r) /\ UNCHANGED loopVars
RaisesInA(r) == RaisesA(r) /\ UNCHANGED loopVars
RaisesInB(r) == RaisesB(r) /\ UNCHANGED loopVars
RaisesInC(r) == RaisesC(r) /\ UNCHANGED loopVars
NotPerformed(r) == ReturnsEarly(r) /\ UNCHANGED loopVars

\* The same call step by step, for the interleavings of two threads: a
\* thread enters bidirectional_sync (no lock is taken: the guard is only
\* that this thread is not already inside the call), then runs the phases.
Begin(r) ==
    /\ pc[r] = "idle"
    /\ Accessible
    /\ pc' = [pc EXCEPT ![r] = "A"]
    /\ run' = [run EXCEPT ![r] = NoRun]
    /\ outcome' = [outcome EXCEPT ![r] = "none"]
    /\ failedAt' = [failedAt EXCEPT ![r] = NoKey]
    /\ result' = [result EXCEPT ![r] = "none"]
    /\ Enter(r)
    /\ api' = NoCall
    /\ UNCHANGED <<now, local, shared, foreign, mirror, localBackup,
                   sharedBackup, last_sync_times, edits, store, username, job, torn, loopVars>>

\* Variant of PhaseA that goes on to the conflict phase.
PhaseA_then_C(r) ==
    /\ pc[r] = "A"
    /\ Install(r, sync_local_to_shared(Cur(r), now, Files))
    /\ pc' = [pc EXCEPT ![r] = "C"]
    /\ UNCHANGED <<now, outcome, mode, pre, failedAt, edits,
                   store, username, job, result, api, torn, loopVars>>

PhaseA(r) ==
    /\ pc[r] = "A"
    /\ Install(r, sync_local_to_shared(Cur(r), now, Files))
    /\ pc' = [pc EXCEPT ![r] = "B"]
    /\ UNCHANGED <<now, outcome, mode, pre, failedAt, edits,
                   store, username, job, result, api, torn, loopVars>>

PhaseB(r) ==
    /\ pc[r] = "B"
    /\ \E ownFirst \in BOOLEAN :
          Install(r, sync_shared_to_local(Cur(r), now, ownFirst, Files, Files))
    /\ pc' = [pc EXCEPT ![r] = "C"]
    /\ UNCHANGED <<now, outcome, mode, pre, failedAt, edits,
                   store, username, job, result, api, torn, loopVars>>

PhaseC(r) ==
    /\ pc[r] = "C"
    /\ LET s == detect_and_resolve_conflicts(Cur(r), now, Files)
       IN  /\ Install(r, s)
           /\ result' = [result EXCEPT ![r] = return_value(s)]
    /\ pc' = [pc EXCEPT ![r] = "idle"]
    /\ outcome' = [outcome EXCEPT ![r] = "ok"]
    /\ UNCHANGED <<now, mode, pre, failedAt, edits, store, username, job, api, torn, loopVars>>

\* ------------------------------------------------ sync_letter / unsync_letter
\* Something other than the running thread changes a file: no run is
\* undisturbed any more, and what an earlier run returned is history.
Disturb ==
    /\ mode' = AllDirty
    /\ pre' = NoSnap
    /\ run' = [r \in Runners |-> IF pc[r] = "idle" THEN NoRun ELSE run[r]]
    /\ outcome' = [r \in Runners |-> IF pc[r] = "idle" THEN "none" ELSE outcome[r]]
    /\ failedAt' = [r \in Runners |-> IF pc[r] = "idle" THEN NoKey ELSE failedAt[r]]
    /\ result' = [r \in Runners |-> IF pc[r] = "idle" THEN "none" ELSE result[r]]
    /\ torn' = NoTorn

InstallFiles(s) ==
    /\ local' = s.local
    /\ shared' = s.shared
    /\ foreign' = s.foreign
    /\ mirror' = s.mirror
    /\ localBackup' = s.localBackup
    /\ sharedBackup' = s.sharedBackup
    /\ last_sync_times' = s.lst

\* sync_letter returns True when it copied the letter.
sync_letter_result(s, d) == Accessible /\ letter_path(s.local, d)[2] # ""

\* unsync_letter returns True when it removed a file ("removed").
unsync_letter_result(s, d) ==
    Accessible /\ \E x \in Exts : Exists(s.shared[<<d, x>>])

PushOne(d) ==
    /\ InstallFiles(IF Accessible THEN sync_letter(Entry, now, d) ELSE Entry)
    /\ api' = [op |-> "sync_letter", d |-> d, ret |-> sync_letter_result(Entry, d)]
    /\ Disturb
    /\ UNCHANGED <<now, pc, edits, store, username, job, loopVars>>

Unpush(d) ==
    /\ InstallFiles(IF Accessible THEN unsync_letter(Entry, d) ELSE Entry)
    /\ api' = [op |-> "unsync_letter", d |-> d, ret |-> unsync_letter_result(Entry, d)]
    /\ Disturb
    /\ UNCHANGED <<now, pc, edits, store, username, job, loopVars>>

\* ------------------------------------------------ the environment
\* Another process writes, touches or deletes a file (any content, any
\* modification time: other machines' clocks, restored copies, touch).
External ==
    /\ edits < MaxEdits
    /\ edits' = edits + 1
    /\ Disturb
    /\ api' = NoCall
    /\ UNCHANGED <<now, localBackup, sharedBackup, last_sync_times, pc,
                   store, username, job, loopVars>>

EditLocal(f, v) ==
    /\ local[f] # v
    /\ local' = [local EXCEPT ![f] = v]
    /\ External
    /\ UNCHANGED <<shared, foreign, mirror>>

EditShared(f, v) ==
    /\ shared[f] # v
    /\ shared' = [shared EXCEPT ![f] = v]
    /\ External
    /\ UNCHANGED <<local, foreign, mirror>>

EditForeign(f, v) ==
    /\ foreign[f] # v
    /\ foreign' = [foreign EXCEPT ![f] = v]
    /\ External
    /\ UNCHANGED <<local, shared, mirror>>

EditMirror(f, v) ==
    /\ mirror[f] # v
    /\ mirror' = [mirror EXCEPT ![f] = v]
    /\ External
    /\ UNCHANGED <<local, shared, foreign>>

Tick ==
    /\ now < MaxTime
    /\ now' = now + 1
    /\ UNCHANGED <<local, shared, foreign, mirror, localBackup, sharedBackup,
                   last_sync_times, pc, run, outcome, mode, pre, failedAt,
                   edits, store, username, job, result, api, torn, loopVars>>

SingleLetter == \E d \in Dates : PushOne(d) \/ Unpush(d)

Environment ==
    \/ \E f \in Files : \E v \in FileVals \cup {NoFile} :
          EditLocal(f, v) \/ EditShared(f, v) \/ EditForeign(f, v) \/ EditMirror(f, v)
    \/ Tick

\* The engine called from one thread at a time (the scheduler thread), each
\* call a single step, with the single-letter operations and the environment
\* acting between the calls.
Next ==
    \/ RunOnce("loop")
    \/ RaisesInA("loop") \/ RaisesInB("loop") \/ RaisesInC("loop")
    \/ SingleLetter
    \/ Environment

Spec == Init /\ [][Next]_vars

\* The scheduler thread and the thread of an on-demand trigger (the initial
\* sync of main, or DesktopUI.sync_letters_now) on the same SyncManager,
\* interleaved phase by phase with each other and with the environment.
NextThreads ==
    \/ \E r \in Runners : Begin(r) \/ PhaseA(r) \/ PhaseB(r) \/ PhaseC(r)
    \/ Environment

SpecThreads == Init /\ [][NextThreads]_vars

\* ------------------------------------------------ two threads, one letter
\* The pull of one own letter statement by statement. The test of line 185
\* finds the content different and SharedOwn newer; the thread remembers
\* the letter and, as history, the Local file the test saw.
PullTest(r) ==
    /\ pc[r] = "B"
    /\ own_folder_listed(Cur(r))
    /\ \E f \in Files :
          /\ Exists(shared[f]) /\ Exists(local[f])
          /\ shared[f].c # local[f].c /\ shared[f].m > local[f].m
          /\ job' = [job EXCEPT ![r] = [f |-> f, loser |-> local[f]]]
    /\ pc' = [pc EXCEPT ![r] = "B_backup"]
    /\ UNCHANGED <<now, local, shared, foreign, mirror, localBackup,
                   sharedBackup, last_sync_times, run, outcome, mode, pre,
                   failedAt, edits, store, result, api, torn, username,
                   loopVars>>

\* shutil.copy2(local_path, backup_path): the Local file as it is now.
PullBackup(r) ==
    /\ pc[r] = "B_backup"
    /\ localBackup' = [localBackup EXCEPT ![job[r].f] = local[job[r].f]]
    /\ pc' = [pc EXCEPT ![r] = "B_copy"]
    /\ UNCHANGED <<now, local, shared, foreign, mirror, sharedBackup,
                   last_sync_times, run, outcome, mode, pre, failedAt, edits,
                   store, result, api, torn, username, job, loopVars>>

\* shutil.copy2(shared_path, local_path), the ledger entry and the count;
\* the loops of the phase then go on (PhaseB).
PullCopy(r) ==
    /\ pc[r] = "B_copy"
    /\ local' = [local EXCEPT ![job[r].f] = shared[job[r].f]]
    /\ last_sync_times' = [last_sync_times EXCEPT ![BareKey(job[r].f)] = now]
    /\ run' = [run EXCEPT ![r].pulled = @ \cup {BareKey(job[r].f)}]
    /\ job' = [job EXCEPT ![r] = NoJob]
    /\ pc' = [pc EXCEPT ![r] = "B"]
    /\ UNCHANGED <<now, shared, foreign, mirror, localBackup, sharedBackup,
                   outcome, mode, pre, failedAt, edits, store, result, api,
                   torn, username, loopVars>>

\* The letters of Local and SharedOwn the two threads find.
InitRace ==
    /\ now = 0
    /\ local \in [Files -> FileVals \cup {NoFile}]
    /\ shared \in [Files -> FileVals \cup {NoFile}]
    /\ foreign = Empty
    /\ mirror = Empty
    /\ localBackup = Empty
    /\ sharedBackup = Empty
    /\ last_sync_times = [k \in Keys |-> NoEntry]
    /\ pc = [r \in Runners |-> "idle"]
    /\ run = [r \in Runners |-> NoRun]
    /\ outcome = [r \in Runners |-> "none"]
    /\ mode = AllDirty
    /\ pre = NoSnap
    /\ failedAt = [r \in Runners |-> NoKey]
    /\ edits = 0
    /\ result = [r \in Runners |-> "none"]
    /\ api = NoCall
    /\ torn = NoTorn
    /\ job = [r \in Runners |-> NoJob]
    /\ store = "ok"
    /\ username = Me
    /\ InitLoopOff
    /\ sync_frequency_minutes = 1

NextRace ==
    \E r \in Runners :
        \/ Begin(r) \/ PhaseA(r) \/ PhaseB(r) \/ PhaseC(r)
        \/ PullTest(r) \/ PullBackup(r) \/ PullCopy(r)

SpecRace == InitRace /\ [][NextRace]_vars

\* ------------------------------------------------ config['username']
\* The SyncManager is constructed from a configuration whose username is a
\* name or the empty string; __init__ stores it as it is.
InitConfig ==
    /\ InitRest
    /\ local = Empty
    /\ store = "ok"
    /\ username \in Usernames
    /\ InitLoopOff
    /\ sync_frequency_minutes = 1

SpecConfig == InitConfig /\ [][Next]_vars

\* ------------------------------------------------ the inputs of _needs_sync
\* Modification times and ledger entries for the decision of _needs_sync:
\* three values, so that a time lies strictly between two others.
MaxStamp == 2
Stamps == 0..MaxStamp
StampedFiles == [c : Contents, m : Stamps] \cup {NoFile}

\* Every Local file, SharedOwn file and ledger entry of the user's own
\* letters that a call of bidirectional_sync can meet; an entry is a past
\* value of time.time().
InitNeedsSync ==
    /\ now = MaxStamp
    /\ local \in [Files -> StampedFiles]
    /\ shared \in [Files -> StampedFiles]
    /\ foreign = Empty
    /\ mirror = Empty
    /\ localBackup = Empty
    /\ sharedBackup = Empty
    /\ last_sync_times \in [Keys -> Stamps \cup {NoEntry}]
    /\ \A f \in Files : last_sync_times[UserKey(Other, f)] = NoEntry
    /\ pc = [r \in Runners |-> "idle"]
    /\ run = [r \in Runners |-> NoRun]
    /\ outcome = [r \in Runners |-> "none"]
    /\ mode = AllDirty
    /\ pre = NoSnap
    /\ failedAt = [r \in Runners |-> NoKey]
    /\ edits = 0
    /\ result = [r \in Runners |-> "none"]
    /\ api = NoCall
    /\ torn = NoTorn
    /\ job = [r \in Runners |-> NoJob]
    /\ store = "ok"
    /\ username = Me
    /\ InitLoopOff
    /\ sync_frequency_minutes = 1

\* One call of bidirectional_sync up to the end of _sync_local_to_shared.
NextNeedsSync == Begin("loop") \/ PhaseA("loop")

SpecNeedsSync == InitNeedsSync /\ [][NextNeedsSync]_vars

\* ------------------------------------------------ the shared folder
\* The path of the shared folder stops to exist (a network share is
\* unmounted, a drive unplugged) and comes back; the files on it are kept.
StoreVanishes ==
    /\ store = "ok"
    /\ store' = "missing"
    /\ UNCHANGED <<now, local, shared, foreign, mirror, localBackup,
                   sharedBackup, last_sync_times, pc, run, outcome, mode, pre,
                   failedAt, edits, result, api, torn, username, job, loopVars>>

StoreReturns ==
    /\ store = "missing"
    /\ store' = "ok"
    /\ UNCHANGED <<now, local, shared, foreign, mirror, localBackup,
                   sharedBackup, last_sync_times, pc, run, outcome, mode, pre,
                   failedAt, edits, result, api, torn, username, job, loopVars>>

\* config['shared_folder'] is the empty string of get_default_config, or a path.
InitStore ==
    /\ InitRest
    /\ local = Empty
    /\ store \in {"ok", "unset"}
    /\ username = Me
    /\ InitLoopOff
    /\ sync_frequency_minutes = 1

NextStore ==
    \/ Next
    \/ NotPerformed("loop")
    \/ StoreVanishes \/ StoreReturns

SpecStore == InitStore /\ [][NextStore]_vars

\* ------------------------------------------------ copies cut short
\* shutil.copy2(src, dst) opens dst for writing, writes the content, then
\* sets the modification time of dst to that of src.  Cut short while
\* writing ("content"), dst holds a part of the content; cut short before
\* the times are set ("mtime"), dst holds all of it; either way dst was last
\* written at time t.
cut_short(src, stage, t) ==
    IF stage = "content" THEN [c |-> Partial, m |-> t] ELSE [c |-> src.c, m |-> t]

\* The call ends inside a copy: the copy raises (the share drops, the disk
\* is full) and the except clause returns False, or the process is killed
\* and starts again with an empty ledger (restart).
Interrupted(r, side, f, c, lst, restart) ==
    /\ last_sync_times' = IF restart THEN [k \in Keys |-> NoEntry] ELSE lst
    /\ torn' = [side |-> side, f |-> f, c |-> c]
    /\ outcome' = [outcome EXCEPT ![r] = "interrupted"]
    /\ result' = [result EXCEPT ![r] = IF restart THEN "none" ELSE "False"]
    /\ failedAt' = [failedAt EXCEPT ![r] = BareKey(f)]
    /\ run' = [run EXCEPT ![r] = NoRun]
    /\ Enter(r)
    /\ api' = NoCall
    /\ UNCHANGED <<now, pc, edits, store, username, job, loopVars>>

\* Phase A is cut short in "shutil.copy2(local_path, shared_path)" of f.
InterruptedPush(r) ==
    /\ pc[r] = "idle"
    /\ Accessible
    /\ \E f \in Files : \E done \in SUBSET (Files \ {f}) :
       \E stage \in {"content", "mtime"} : \E restart \in BOOLEAN :
          LET a == sync_local_to_shared(Entry, now, done)
          IN  /\ Exists(a.local[f])
              /\ needs_sync(a.local[f], a.shared[f], f, a.lst)
              /\ local' = a.local
              /\ shared' = [a.shared EXCEPT ![f] = cut_short(a.local[f], stage, now)]
              /\ Interrupted(r, "shared", f, a.local[f].c, a.lst, restart)
              /\ UNCHANGED <<foreign, mirror, localBackup, sharedBackup>>

\* Phase B is cut short in the own-folder branch for f: in the copy to
\* <filename>.local_backup ("backup"), or in
\* "shutil.copy2(shared_path, local_path)".
InterruptedPull(r) ==
    /\ pc[r] = "idle"
    /\ Accessible
    /\ \E f \in Files : \E done \in SUBSET (Files \ {f}) :
       \E stage \in {"backup", "content", "mtime"} : \E restart \in BOOLEAN :
          LET a == sync_local_to_shared(Entry, now, Files)
              b == pull_own_folder(a, now, done)
              both == Exists(b.local[f])
          IN  /\ Exists(b.shared[f])
              /\ both => /\ b.shared[f].c # b.local[f].c
                          /\ b.shared[f].m > b.local[f].m
              /\ stage = "backup" => both
              /\ shared' = b.shared
              /\ localBackup' =
                    IF ~both THEN b.localBackup
                    ELSE IF stage = "backup"
                         THEN [b.localBackup EXCEPT
                                  ![f] = cut_short(b.local[f], "content", now)]
                         ELSE [b.localBackup EXCEPT ![f] = b.local[f]]
              /\ local' =
                    IF stage = "backup" THEN b.local
                    ELSE [b.local EXCEPT ![f] = cut_short(b.shared[f], stage, now)]
              /\ Interrupted(r, IF stage = "backup" THEN "backup" ELSE "local",
                             f, b.shared[f].c, b.lst, restart)
              /\ UNCHANGED <<foreign, mirror, sharedBackup>>

\* The user's own letters only: calls of bidirectional_sync that complete
\* or are cut short, edits of Local and SharedOwn, and the clock.
NextCrash ==
    \/ RunOnce("loop")
    \/ InterruptedPush("loop")
    \/ InterruptedPull("loop")
    \/ \E f \in Files : \E v \in FileVals \cup {NoFile} :
          EditLocal(f, v) \/ EditShared(f, v)
    \/ Tick

SpecCrash == Init /\ [][NextCrash]_vars

\* ------------------------------------------------ _sync_loop
\* start_sync_loop: the thread is created when the shared folder is there.
StartLoop ==
    /\ lpc = "off"
    /\ Accessible
    /\ lpc' = "while"
    /\ UNCHANGED <<now, local, shared, foreign, mirror, localBackup,
                   sharedBackup, last_sync_times, pc, run, outcome, mode, pre,
                   failedAt, edits, store, username, job, result, api, torn,
                   stop_event, sync_frequency, sync_frequency_minutes, elapsed,
                   tickConfig, stopIn, lpc2, joined, sleptAfterStop, syncsAfterStop>>

\* What a statement of the loop leaves alone besides its own variables.
LoopFrame ==
    UNCHANGED <<now, local, shared, foreign, mirror, localBackup,
                sharedBackup, last_sync_times, pc, run, outcome, mode, pre,
                failedAt, edits, store, username, job, result, api, torn,
                stop_event, sync_frequency_minutes, stopIn, lpc2, joined>>

\* "while not self.stop_event.is_set():"
LoopWhile ==
    /\ lpc = "while"
    /\ lpc' = IF stop_event THEN "exited" ELSE "config"
    /\ LoopFrame
    /\ UNCHANGED <<sync_frequency, elapsed, tickConfig, sleptAfterStop,
                   syncsAfterStop>>

\* Variant of LoopConfig that keeps the interval read by __init__.
LoopConfig_read_once ==
    /\ lpc = "config"
    /\ tickConfig' = sync_frequency_minutes
    /\ lpc' = "sync"
    /\ LoopFrame
    /\ UNCHANGED <<sync_frequency, elapsed, sleptAfterStop, syncsAfterStop>>

\* "sync_frequency_new = self.config.get('sync_frequency_minutes', 15) * 60"
\* and the assignment to self.sync_frequency when it differs.
LoopConfig ==
    /\ lpc = "config"
    /\ sync_frequency' = sync_frequency_minutes * SecondsPerMinute
    /\ tickConfig' = sync_frequency_minutes
    /\ lpc' = "sync"
    /\ LoopFrame
    /\ UNCHANGED <<elapsed, sleptAfterStop, syncsAfterStop>>

\* "start_time = time.time()" after the try statement.
LoopStartSleep ==
    /\ lpc' = "sleep"
    /\ elapsed' = 0
    /\ syncsAfterStop' = IF stop_event THEN 1 ELSE syncsAfterStop
    /\ UNCHANGED <<stop_event, sync_frequency, sync_frequency_minutes,
                   tickConfig, stopIn, lpc2, joined, sleptAfterStop>>

\* "self.bidirectional_sync()" returning True or False after its phases.
LoopSync ==
    /\ lpc = "sync"
    /\ Returns("loop")
    /\ LoopStartSleep

\* Variant of LoopSyncFails in which a failed call ends the thread.
LoopSyncFails_exits ==
    /\ lpc = "sync"
    /\ RaisesA("loop") \/ RaisesB("loop") \/ RaisesC("loop") \/ ReturnsEarly("loop")
    /\ lpc' = "exited"
    /\ UNCHANGED <<stop_event, sync_frequency, sync_frequency_minutes, elapsed,
                   tickConfig, stopIn, lpc2, joined, sleptAfterStop, syncsAfterStop>>

\* "self.bidirectional_sync()" failing: a file operation raises, or the
\* shared folder is gone.  The call returns False (and what it might raise
\* is caught by "except Exception as e" of the loop).
LoopSyncFails ==
    /\ lpc = "sync"
    /\ RaisesA("loop") \/ RaisesB("loop") \/ RaisesC("loop") \/ ReturnsEarly("loop")
    /\ LoopStartSleep

\* "while time.time() - start_time < self.sync_frequency:"
LoopSleepTest ==
    /\ lpc = "sleep"
    /\ lpc' = IF elapsed < sync_frequency THEN "poll" ELSE "while"
    /\ LoopFrame
    /\ UNCHANGED <<sync_frequency, elapsed, tickConfig, sleptAfterStop,
                   syncsAfterStop>>

\* Variant of LoopPoll that does not look at the stop event.
LoopPoll_no_check ==
    /\ lpc = "poll"
    /\ lpc' = "sleeping"
    /\ LoopFrame
    /\ UNCHANGED <<sync_frequency, elapsed, tickConfig, sleptAfterStop,
                   syncsAfterStop>>

\* "if self.stop_event.is_set(): break"
LoopPoll ==
    /\ lpc = "poll"
    /\ lpc' = IF stop_event THEN "while" ELSE "sleeping"
    /\ LoopFrame
    /\ UNCHANGED <<sync_frequency, elapsed, tickConfig, sleptAfterStop,
                   syncsAfterStop>>

\* "time.sleep(1)": one second later.
LoopSleep ==
    /\ lpc = "sleeping"
    /\ elapsed' = elapsed + 1
    /\ sleptAfterStop' = IF stop_event THEN sleptAfterStop + 1 ELSE sleptAfterStop
    /\ lpc' = "sleep"
    /\ LoopFrame
    /\ UNCHANGED <<sync_frequency, tickConfig, syncsAfterStop>>

\* stop_sync_loop: "self.stop_event.set()".
Stop ==
    /\ ~stop_event
    /\ stop_event' = TRUE
    /\ stopIn' = lpc
    /\ UNCHANGED <<now, local, shared, foreign, mirror, localBackup,
                   sharedBackup, last_sync_times, pc, run, outcome, mode, pre,
                   failedAt, edits, store, username, job, result, api, torn,
                   lpc, sync_frequency, sync_frequency_minutes, elapsed,
                   tickConfig, sleptAfterStop, syncsAfterStop, lpc2, joined>>

\* api_settings: "self.config[key] = value" on the dictionary the
\* SyncManager was constructed with.
SetInterval(m) ==
    /\ sync_frequency_minutes # m
    /\ sync_frequency_minutes' = m
    /\ UNCHANGED <<now, local, shared, foreign, mirror, localBackup,
                   sharedBackup, last_sync_times, pc, run, outcome, mode, pre,
                   failedAt, edits, store, username, job, result, api, torn,
                   lpc, stop_event, sync_frequency, elapsed,
                   tickConfig, stopIn, lpc2, joined, sleptAfterStop, syncsAfterStop>>

\* The statements of the thread of _sync_loop.
LoopThread ==
    \/ LoopWhile \/ LoopConfig \/ LoopSync \/ LoopSyncFails
    \/ LoopSleepTest \/ LoopPoll \/ LoopSleep

\* One letter of the user and one of bob, nothing synchronized yet.
InitLoop ==
    /\ InitRest
    /\ local = [Empty EXCEPT ![<<"20250605", "html">>] = [c |-> 1, m |-> 0]]
    /\ store = "ok"
    /\ username = Me
    /\ InitLoopOff
    /\ sync_frequency_minutes = 1

NextLoop ==
    \/ StartLoop
    \/ LoopThread
    \/ Stop
    \/ \E m \in Minutes : SetInterval(m)
    \/ StoreVanishes \/ StoreReturns

\* The thread is scheduled again and again, time.sleep(1) returns and
\* bidirectional_sync terminates.
SpecLoop == InitLoop /\ [][NextLoop]_vars /\ WF_vars(LoopThread) /\ WF_vars(StartLoop)

\* ------------------------------------------------ start and stop, again
\* start_sync_loop called when a thread was created before: it tests only
\* the shared folder, creates a further thread and stores it in
\* self.sync_thread.
StartAgain ==
    /\ lpc # "off"
    /\ lpc2 = "off"
    /\ Accessible
    /\ lpc2' = "while"
    /\ UNCHANGED <<now, local, shared, foreign, mirror, localBackup,
                   sharedBackup, last_sync_times, pc, run, outcome, mode, pre,
                   failedAt, edits, store, username, job, result, api, torn,
                   lpc, stop_event, sync_frequency, sync_frequency_minutes,
                   elapsed, tickConfig, stopIn, sleptAfterStop,
                   syncsAfterStop, joined>>

\* The further thread: "while not self.stop_event.is_set():".
Loop2While ==
    /\ lpc2 = "while"
    /\ lpc2' = IF stop_event THEN "exited" ELSE "sync"
    /\ UNCHANGED <<now, local, shared, foreign, mirror, localBackup,
                   sharedBackup, last_sync_times, pc, run, outcome, mode, pre,
                   failedAt, edits, store, username, job, result, api, torn,
                   lpc, stop_event, sync_frequency, sync_frequency_minutes,
                   elapsed, tickConfig, stopIn, sleptAfterStop,
                   syncsAfterStop, joined>>

\* The further thread: one call of bidirectional_sync and the sleep after it.
Loop2Sync ==
    /\ lpc2 = "sync"
    /\ Returns("main")
    /\ lpc2' = "while"
    /\ UNCHANGED <<lpc, stop_event, sync_frequency, sync_frequency_minutes,
                   elapsed, tickConfig, stopIn, sleptAfterStop,
                   syncsAfterStop, joined>>

\* "self.bidirectional_sync()" of the loop, entered: the phases follow as
\* steps of their own (PhaseA, PhaseB, PhaseC).
LoopCall ==
    /\ lpc = "sync"
    /\ pc["loop"] = "idle"
    /\ Accessible
    /\ lpc' = "calling"
    /\ pc' = [pc EXCEPT !["loop"] = "A"]
    /\ run' = [run EXCEPT !["loop"] = NoRun]
    /\ outcome' = [outcome EXCEPT !["loop"] = "none"]
    /\ failedAt' = [failedAt EXCEPT !["loop"] = NoKey]
    /\ result' = [result EXCEPT !["loop"] = "none"]
    /\ Enter("loop")
    /\ api' = NoCall
    /\ UNCHANGED <<now, local, shared, foreign, mirror, localBackup,
                   sharedBackup, last_sync_times, edits, store, username, job,
                   torn, stop_event, sync_frequency, sync_frequency_minutes,
                   elapsed, tickConfig, stopIn, lpc2, joined, sleptAfterStop,
                   syncsAfterStop>>

\* The call has returned: "start_time = time.time()".
LoopReturn ==
    /\ lpc = "calling"
    /\ pc["loop"] = "idle"
    /\ LoopStartSleep
    /\ UNCHANGED <<now, local, shared, foreign, mirror, localBackup,
                   sharedBackup, last_sync_times, pc, run, outcome, mode, pre,
                   failedAt, edits, store, username, job, result, api, torn>>

\* stop_sync_loop returns: "self.sync_thread.join(timeout=1)" has returned,
\* because the thread has ended or because one second has passed, or was
\* not called because the thread is not alive.
StopReturns ==
    /\ stop_event
    /\ ~joined
    /\ joined' = TRUE
    /\ UNCHANGED <<now, local, shared, foreign, mirror, localBackup,
                   sharedBackup, last_sync_times, pc, run, outcome, mode, pre,
                   failedAt, edits, store, username, job, result, api, torn,
                   lpc, stop_event, sync_frequency, sync_frequency_minutes,
                   elapsed, tickConfig, stopIn, lpc2, sleptAfterStop,
                   syncsAfterStop>>

NextStartStop ==
    \/ StartLoop \/ StartAgain
    \/ LoopWhile \/ LoopConfig \/ LoopCall
    \/ PhaseA("loop") \/ PhaseB("loop") \/ PhaseC("loop")
    \/ LoopReturn \/ LoopSleepTest \/ LoopPoll \/ LoopSleep
    \/ Loop2While \/ Loop2Sync
    \/ Stop \/ StopReturns

SpecStartStop == InitLoop /\ [][NextStartStop]_vars

\* ======================================================== properties
\* An undisturbed bidirectional_sync of thread r has run all three phases,
\* and no file has changed since it returned.
Done(r) == pc[r] = "idle" /\ outcome[r] = "ok" /\ mode[r] # "dirty"

\* An undisturbed bidirectional_sync of thread r was ended by an exception.
Aborted(r) == pc[r] = "idle" /\ outcome[r] = "error" /\ mode[r] # "dirty"

\* When the run began, Local and SharedOwn both held f, with different content.
PreDivergent(f) ==
    /\ Exists(pre.local[f]) /\ Exists(pre.shared[f])
    /\ pre.local[f].c # pre.shared[f].c

LocalWon(f) == local[f].c = pre.local[f].c /\ shared[f].c = pre.local[f].c
SharedWon(f) == local[f].c = pre.shared[f].c /\ shared[f].c = pre.shared[f].c

Synchronized(f) ==
    (Exists(local[f]) \/ Exists(shared[f]))
        => (Exists(local[f]) /\ Exists(shared[f]) /\ local[f].c = shared[f].c)

\* C1 (as claimed): after an undisturbed run, for every own document that was
\* divergent when the run began, the winner's content is in both stores and
\* the loser's content is in the loser's backup file.
C1_NoDataLoss ==
    \A r \in Runners : Done(r) =>
        \A f \in Files : PreDivergent(f) =>
            \/ LocalWon(f) /\ sharedBackup[f].c = pre.shared[f].c
            \/ SharedWon(f) /\ localBackup[f].c = pre.local[f].c

\* C2: a run that directly follows an undisturbed run, with no file change
\* in between, pushes nothing, pulls nothing, resolves nothing and leaves
\* every file as it was.
C2_Idempotent ==
    \A r \in Runners : (Done(r) /\ mode[r] = "repeat") =>
        /\ run[r] = NoRun
        /\ local = pre.local /\ shared = pre.shared /\ mirror = pre.mirror

C2_Witness ==
    \E r \in Runners : \E f, g \in Files :
        /\ Done(r) /\ mode[r] = "repeat"
        /\ Exists(local[f]) /\ Exists(shared[f]) /\ Exists(mirror[g])

\* C3: after an undisturbed run, every file name present in Local or in
\* SharedOwn is present in both, with the same content.
C3_Converged ==
    \A r \in Runners : Done(r) => \A f \in Files : Synchronized(f)

C3_Witness ==
    \E r \in Runners : \E f, g \in Files :
        /\ Done(r)
        /\ \/ PreDivergent(f)
           \/ Exists(pre.shared[f]) /\ ~Exists(pre.local[f])
                /\ Exists(pre.local[g]) /\ ~Exists(pre.shared[g])

\* C4 (as claimed): at most one thread is inside bidirectional_sync.
C4_AtMostOneRun == Cardinality(Active) <= 1

\* A step of the engine (not of the environment, not of the clock).
EngineStep == edits' = edits /\ now' = now

\* The document of ledger key k has a ledger entry, and its source copy src
\* has not been modified after the recorded time.
Stale(src, k) ==
    Exists(src) /\ last_sync_times[k] # NoEntry /\ src.m <= last_sync_times[k]

CopiedOver(src, dst, dst2) == Exists(dst) /\ dst2 # dst /\ dst2 = src

\* C5 (as claimed): when a document has a ledger entry and its source copy
\* is not later than that entry, a call of bidirectional_sync does not copy
\* the source over the existing destination: Local over SharedOwn, SharedOwn
\* over Local, or another user's shared letter over its mirror.
C5_StalenessGuard ==
    [][(\E r \in Runners : RunOnce(r)) => \A f \in Files :
          /\ Stale(local[f], BareKey(f))
                => ~CopiedOver(local[f], shared[f], shared'[f])
          /\ Stale(shared[f], BareKey(f))
                => ~CopiedOver(shared[f], local[f], local'[f])
          /\ Stale(foreign[f], UserKey(Other, f))
                => ~CopiedOver(foreign[f], mirror[f], mirror'[f])]_vars

\* C6: no step of the engine (bidirectional_sync, sync_letter,
\* unsync_letter) changes a file of another user's shared folder.
C6_Isolation == [][EngineStep => foreign' = foreign]_vars

C6_Witness ==
    \E r \in Runners : \E f \in Files :
        /\ UserKey(Other, f) \in run[r].pulled
        /\ mirror[f] = foreign[f] /\ Exists(mirror[f])

SharedNewer(f) == PreDivergent(f) /\ pre.shared[f].m > pre.local[f].m

\* C8 (as claimed): a divergent document whose SharedOwn copy is strictly
\* later ends with Local holding SharedOwn's content, .local_backup holding
\* the pre-run Local file, and the document counted as a conflict.
C8_CountedAsConflict ==
    \A r \in Runners : Done(r) =>
        \A f \in Files : SharedNewer(f) =>
            /\ local[f] = pre.shared[f]
            /\ localBackup[f] = pre.local[f]
            /\ f \in run[r].conflicts

\* C8 (amended): ... and the document counted as one incoming (pulled)
\* file of Phase B, not as a conflict.
C8_CountedAsPulled ==
    \A r \in Runners : Done(r) =>
        \A f \in Files : SharedNewer(f) =>
            /\ local[f] = pre.shared[f]
            /\ shared[f] = pre.shared[f]
            /\ localBackup[f] = pre.local[f]
            /\ BareKey(f) \in run[r].pulled
            /\ f \notin run[r].conflicts
            /\ f \notin run[r].pushed

C8_Witness ==
    \E r \in Runners : \E f \in Files : Done(r) /\ SharedNewer(f)

\* The phases of thread r's run that counted own document f.
Handled(r, f) ==
    (IF f \in run[r].pushed THEN {"A"} ELSE {})
    \cup (IF BareKey(f) \in run[r].pulled THEN {"B"} ELSE {})
    \cup (IF f \in run[r].conflicts THEN {"C"} ELSE {})

\* C9: in an undisturbed run no own document is counted by two phases, and
\* a document that was divergent when the run began is counted by exactly
\* one phase.
C9_HandledOnce ==
    \A r \in Runners : mode[r] # "dirty" =>
        \A f \in Files :
            /\ Cardinality(Handled(r, f)) <= 1
            /\ (Done(r) /\ PreDivergent(f)) => Cardinality(Handled(r, f)) = 1

C9_Witness ==
    \E r \in Runners : \E f \in Files :
        Done(r) /\ PreDivergent(f) /\ f \in run[r].pushed

\* C10 (as claimed): when a file operation on one document raises during an
\* undisturbed run, every other own document is still synchronized.
C10_OthersStillSynchronized ==
    \A r \in Runners : Aborted(r) =>
        \A g \in Files : BareKey(g) # failedAt[r] => Synchronized(g)

\* C11: whenever a file operation raised inside a call of
\* bidirectional_sync, in whichever phase, the call returned False to its
\* caller; no call ends by raising.
C11_NoErrorEscapes ==
    \A r \in Runners :
        /\ result[r] # "raised"
        /\ outcome[r] = "error" => result[r] = "False"

C11_Witness ==
    \E r \in Runners : \E f \in Files :
        outcome[r] = "error" /\ failedAt[r] = UserKey(Other, f)

\* A call of bidirectional_sync by thread r, however it ends.
CallStep(r) ==
    RunOnce(r) \/ RaisesInA(r) \/ RaisesInB(r) \/ RaisesInC(r) \/ NotPerformed(r)

\* C12: a call of bidirectional_sync made while the shared folder is unset
\* or missing returns False, counts nothing, and changes no file of Local
\* (backups included), no file of the community mirror and no ledger entry.
C12_AbortsBeforeAnyPhase ==
    [][\A r \in Runners : (store # "ok" /\ CallStep(r)) =>
          /\ result'[r] = "False"
          /\ run'[r] = NoRun
          /\ local' = local /\ localBackup' = localBackup
          /\ mirror' = mirror
          /\ shared' = shared /\ sharedBackup' = sharedBackup
          /\ foreign' = foreign
          /\ last_sync_times' = last_sync_times]_vars

C12_Witness ==
    \E r \in Runners : \E f, g \in Files :
        /\ store # "ok" /\ outcome[r] = "unavailable" /\ result[r] = "False"
        /\ Exists(local[f]) /\ ~Exists(shared[f])
        /\ Exists(foreign[g]) /\ ~Exists(mirror[g])

\* C13 (as claimed): a call that was aborted (shared folder unset or
\* missing) or that failed (a file operation raised) never returns the value
\* that a call with nothing to push, pull or resolve returns.
C13_Distinguishable ==
    \A r \in Runners :
        outcome[r] \in {"error", "unavailable"} => result[r] # return_value(NoRun)

\* C14 (as claimed): when a call was cut short inside the transfer of one
\* document and a complete call follows with no other change in between,
\* Local and SharedOwn both hold the content the cut transfer was copying:
\* the cut copy was not taken for a newer version.
C14_InterruptionSafe ==
    \A r \in Runners : (Done(r) /\ torn.side # "none") =>
        /\ local[torn.f].c = torn.c
        /\ shared[torn.f].c = torn.c

\* C15 (as claimed): after unsync_letter(d) neither serialization of d
\* exists in SharedOwn and the ledger has no entry for either file name,
\* whatever SharedOwn and the ledger held before.
C15_UnpushClearsLedger ==
    [][\A d \in Dates : Unpush(d) =>
          \A x \in Exts :
              /\ ~Exists(shared'[<<d, x>>])
              /\ last_sync_times'[BareKey(<<d, x>>)] = NoEntry]_vars

\* C16: sync_letter(d) changes at most the SharedOwn file with the name of
\* the Local letter it copies and the ledger entry of that name; every other
\* file of Local, SharedOwn, the other users' folders and the mirror, every
\* backup and every other ledger entry is as before.
C16_PushOneFrame ==
    [][\A d \in Dates : PushOne(d) =>
          LET f == letter_path(local, d)
          IN  /\ local' = local /\ foreign' = foreign /\ mirror' = mirror
              /\ localBackup' = localBackup /\ sharedBackup' = sharedBackup
              /\ \A g \in Files : g # f => shared'[g] = shared[g]
              /\ \A k \in Keys : k # BareKey(f) =>
                     last_sync_times'[k] = last_sync_times[k]]_vars

C16_Witness ==
    /\ api.op = "sync_letter" /\ api.ret
    /\ shared[<<api.d, "html">>] = local[<<api.d, "html">>]
    /\ Exists(local[<<api.d, "md">>])
    /\ shared[<<api.d, "md">>] # local[<<api.d, "md">>]

\* When the run began f was the only letter anywhere.
OnlyDocument(f) ==
    /\ \A g \in Files \ {f} : ~Exists(pre.local[g]) /\ ~Exists(pre.shared[g])
    /\ \A g \in Files : ~Exists(foreign[g])

LocalOnly(f) == Exists(pre.local[f]) /\ ~Exists(pre.shared[f])

\* C17: a letter that was in Local and not in SharedOwn when an undisturbed
\* run began is in SharedOwn afterwards with the content (and modification
\* time) of the Local file, and is counted as pushed, not as pulled and not
\* as a conflict; when it was the only letter the counts are 1, 0, 0 and
\* the call returns True.
C17_LocalOnlyIsPushed ==
    \A r \in Runners : Done(r) =>
        \A f \in Files : LocalOnly(f) =>
            /\ shared[f] = pre.local[f]
            /\ local[f] = pre.local[f]
            /\ f \in run[r].pushed
            /\ BareKey(f) \notin run[r].pulled
            /\ f \notin run[r].conflicts
            /\ OnlyDocument(f) =>
                  /\ run[r] = [pushed |-> {f}, pulled |-> {}, conflicts |-> {}]
                  /\ result[r] = "True"

C17_Witness ==
    \E r \in Runners : \E f \in Files :
        Done(r) /\ LocalOnly(f) /\ OnlyDocument(f)

Sleeping == {"sleep", "poll", "sleeping"}

\* C18: when the stop event is set while the loop is in its sleep between
\* two calls, at most one more time.sleep(1) returns, no further
\* bidirectional_sync is begun, and the thread leaves the loop.
C18_StopIsPrompt ==
    /\ [](stopIn \in Sleeping => sleptAfterStop <= 1 /\ syncsAfterStop = 0)
    /\ (stopIn \in Sleeping) ~> (lpc = "exited")

C18_Witness ==
    /\ stopIn = "sleeping" /\ lpc = "exited"
    /\ sleptAfterStop = 1 /\ elapsed < sync_frequency

\* C19: a started loop ends only when it is asked to stop, and until then,
\* wherever it is, also in the sleep after a call that failed, it comes to
\* call bidirectional_sync again.
C19_FiresAgain ==
    /\ [](lpc = "exited" => stop_event)
    /\ (lpc \notin {"off", "sync"} /\ ~stop_event)
          ~> (stop_event \/ lpc = "sync")

C19_Witness ==
    /\ lpc = "sync" /\ ~stop_event
    /\ outcome["loop"] \in {"error", "unavailable"}

\* C20: the sleep after a call lasts the number of minutes that
\* config['sync_frequency_minutes'] held when the iteration read it: the
\* loop goes on sleeping while fewer seconds have passed, and when it leaves
\* the sleep without a stop exactly that many have.
C20_IntervalReRead ==
    [][/\ (lpc = "sleep" /\ lpc' = "poll")
            => elapsed < tickConfig * SecondsPerMinute
       /\ (lpc = "sleep" /\ lpc' = "while")
            => elapsed = tickConfig * SecondsPerMinute]_vars

C20_Witness ==
    /\ lpc = "sleep" /\ tickConfig = 2
    /\ elapsed = 2 * SecondsPerMinute

\* The location holds at most one serialization of each date.
Single(loc) ==
    \A d \in Dates : ~(Exists(loc[<<d, "html">>]) /\ Exists(loc[<<d, "md">>]))

\* C21 (as claimed): when Local, SharedOwn, bob's folder and the mirror each
\* held at most one serialization per date as an undisturbed run began,
\* Local, SharedOwn and the mirror each hold at most one afterwards.
C21_SingleSerialization ==
    \A r \in Runners :
        (/\ Done(r)
         /\ Single(pre.local) /\ Single(pre.shared)
         /\ Single(pre.mirror) /\ Single(foreign))
        => Single(local) /\ Single(shared) /\ Single(mirror)

\* C22 (as claimed): when Local holds both serializations of a date and the
\* .md file is the more recently modified, sync_letter pushes the .md file.
C22_PushesMostRecent ==
    [][\A d \in Dates :
          (/\ PushOne(d)
           /\ Exists(local[<<d, "html">>]) /\ Exists(local[<<d, "md">>])
           /\ local[<<d, "md">>].m > local[<<d, "html">>].m)
          => /\ shared'[<<d, "md">>] = local[<<d, "md">>]
             /\ last_sync_times'[BareKey(<<d, "md">>)] = now]_vars

\* The decision rule as the specification states it, for a source file, a
\* destination file and the ledger entry of the document.
ShouldSync(src, dst, entry) ==
    \/ ~Exists(dst)
    \/ entry # NoEntry /\ src.m > entry /\ src.m > dst.m
    \/ entry = NoEntry /\ src.m > dst.m

\* C26 (as claimed): a call of bidirectional_sync copies bob's letter into
\* the mirror exactly when the rule says so for the letter's own ledger
\* entry, the one under "bob/<filename>".
C26_MirrorUsesOwnEntry ==
    [][\A r \in Runners : RunOnce(r) =>
          \A f \in Files : Exists(foreign[f]) =>
              (UserKey(Other, f) \in run'[r].pulled
                  <=> ShouldSync(foreign[f], mirror[f],
                                 last_sync_times[UserKey(Other, f)]))]_vars

\* The ledger keys of the documents a call counted.
Counted(c) ==
    {BareKey(f) : f \in c.pushed \cup c.conflicts} \cup c.pulled

\* C27: in a call of bidirectional_sync, complete or ended by an exception,
\* the ledger entry of every document the call pushed, pulled, mirrored or
\* resolved is set to the time of the call and every other entry is as
\* before; sync_letter sets the entry of the letter it copies; no call of
\* either removes an entry, and an entry that disappears does so in
\* unsync_letter of its date.
C27_LedgerLifecycle ==
    [][/\ \A r \in Runners :
            (RunOnce(r) \/ RaisesInA(r) \/ RaisesInB(r) \/ RaisesInC(r)) =>
                \A k \in Keys :
                    last_sync_times'[k] =
                        IF k \in Counted(run'[r]) THEN now ELSE last_sync_times[k]
       /\ \A d \in Dates : PushOne(d) =>
            \A k \in Keys :
                last_sync_times'[k] =
                    IF k = BareKey(letter_path(local, d)) THEN now
                    ELSE last_sync_times[k]
       /\ \A k \in Keys :
            (last_sync_times[k] # NoEntry /\ last_sync_times'[k] = NoEntry)
                => k[1] = "" /\ Unpush(k[2][1])]_vars

C27_Witness ==
    \E r \in Runners : \E f, g \in Files :
        /\ Done(r)
        /\ f \in run[r].pushed /\ last_sync_times[BareKey(f)] # NoEntry
        /\ UserKey(Other, g) \in run[r].pulled
        /\ last_sync_times[UserKey(Other, g)] # NoEntry

\* C29: a step of the engine writes <filename>.local_backup only when Local
\* and SharedOwn hold the letter with different content and Local is being
\* overwritten with SharedOwn's file, and the backup is then the Local file
\* as it was (content and modification time); likewise for
\* <filename>.shared_backup; and no step of the engine removes a backup.
C29_BackupsOfLosers ==
    [][EngineStep => \A f \in Files :
          /\ localBackup'[f] # localBackup[f] =>
                /\ Exists(local[f]) /\ Exists(shared[f])
                /\ local[f].c # shared[f].c
                /\ localBackup'[f] = local[f]
                /\ local'[f] = shared[f]
          /\ sharedBackup'[f] # sharedBackup[f] =>
                /\ Exists(local[f]) /\ Exists(shared[f])
                /\ local[f].c # shared[f].c
                /\ sharedBackup'[f] = shared[f]
                /\ shared'[f] = local[f]
          /\ Exists(localBackup[f]) => Exists(localBackup'[f])
          /\ Exists(sharedBackup[f]) => Exists(sharedBackup'[f])]_vars

C29_Witness ==
    \E r \in Runners : \E f \in Files :
        /\ Done(r) /\ PreDivergent(f)
        /\ BareKey(f) \in run[r].pulled
        /\ localBackup[f] = pre.local[f]
        /\ localBackup[f] # local[f]

\* C30: in a call of bidirectional_sync, for every document resolved as a
\* conflict the file of the loser becomes the file of the winner (content
\* and modification time), so Local and SharedOwn hold the same file, and
\* the ledger entry of the document is the time of the call.
C30_LoserBecomesWinner ==
    [][\A r \in Runners : RunOnce(r) =>
          \A f \in run'[r].conflicts :
              /\ local'[f] = shared'[f]
              /\ local'[f] = IF shared[f].m > local[f].m THEN shared[f] ELSE local[f]
              /\ last_sync_times'[BareKey(f)] = now]_vars

C30_Witness ==
    \E r \in Runners : \E f \in Files :
        /\ Done(r) /\ f \in run[r].conflicts
        /\ local[f] = shared[f] /\ Exists(sharedBackup[f])

\* The order of the positions of a thread inside bidirectional_sync.
PhaseOrder ==
    {<<"idle", "A">>, <<"A", "B">>, <<"B", "C">>, <<"C", "idle">>}

\* C28: a thread inside bidirectional_sync moves from phase A to phase B to
\* phase C and out; it counts a push only in its step of phase A, a pull or
\* a mirrored letter only in its step of phase B and a conflict only in its
\* step of phase C; and when a letter of the mirror is written some thread
\* takes its step of phase B.
C28_PhasesInOrder ==
    [][/\ \A r \in Runners :
            /\ pc'[r] # pc[r] => <<pc[r], pc'[r]>> \in PhaseOrder
            /\ ~(run'[r].pushed \subseteq run[r].pushed)
                  => pc[r] = "A" /\ pc'[r] = "B"
            /\ ~(run'[r].pulled \subseteq run[r].pulled)
                  => pc[r] = "B" /\ pc'[r] = "C" /\ run'[r].conflicts = {}
            /\ ~(run'[r].conflicts \subseteq run[r].conflicts)
                  => pc[r] = "C" /\ pc'[r] = "idle"
       /\ (EngineStep /\ mirror' # mirror)
            => \E r \in Runners : pc[r] = "B" /\ pc'[r] = "C"]_vars

C28_Witness ==
    \E r \in Runners :
        /\ pc[r] = "idle" /\ outcome[r] = "ok"
        /\ run[r].pushed # {} /\ run[r].pulled # {}

\* C25: _sync_local_to_shared pushes a Local letter exactly when SharedOwn
\* does not hold it, or the letter has a ledger entry and Local's
\* modification time is later than both the entry and SharedOwn's
\* modification time, or it has no entry and Local's modification time is
\* later than SharedOwn's.
C25_ShouldSyncRule ==
    [][\A r \in Runners : PhaseA(r) =>
          \A f \in Files : Exists(local[f]) =>
              (f \in run'[r].pushed
                  <=> ShouldSync(local[f], shared[f],
                                 last_sync_times[BareKey(f)]))]_vars

\* A letter newer in Local than in SharedOwn was not pushed, on account of
\* its ledger entry.
C25_Witness ==
    \E r \in Runners : \E f \in Files :
        /\ pc[r] = "B"
        /\ Exists(local[f]) /\ Exists(shared[f])
        /\ local[f].m > shared[f].m
        /\ last_sync_times[BareKey(f)] >= local[f].m
        /\ f \notin run[r].pushed

\* C23 (as claimed): with an empty username a call of bidirectional_sync
\* does not report success and writes no file, and sync_letter writes no
\* file; with the empty username the folder of the user's own letters is
\* the shared folder itself, so no letter and no backup appears there.
C23_ConfigInvalid ==
    [][username = "" =>
          /\ \A r \in Runners : CallStep(r) =>
                /\ result'[r] # "True"
                /\ shared' = shared /\ sharedBackup' = sharedBackup
                /\ local' = local /\ localBackup' = localBackup
                /\ mirror' = mirror
          /\ \A d \in Dates : PushOne(d) => shared' = shared]_vars

\* C24 (as claimed): when a thread has written <filename>.local_backup and
\* is about to overwrite the Local letter, the backup is the Local file
\* its test found different from SharedOwn, whatever another thread inside
\* bidirectional_sync did in between.
C24_BackupHoldsLoser ==
    \A r \in Runners :
        pc[r] = "B_copy" => localBackup[job[r].f] = job[r].loser

\* C31: a call of bidirectional_sync that finds a letter in SharedOwn and
\* not in Local copies it into Local (content and modification time) and
\* counts it as pulled, also when the letter has a ledger entry (it was
\* synchronized before and then removed from Local); and the call removes
\* no letter from Local or from SharedOwn.
C31_MissingLocalIsRestored ==
    [][\A r \in Runners : RunOnce(r) =>
          \A f \in Files :
              /\ (Exists(shared[f]) /\ ~Exists(local[f]))
                    => /\ local'[f] = shared[f]
                       /\ shared'[f] = shared[f]
                       /\ BareKey(f) \in run'[r].pulled
              /\ Exists(local[f]) => Exists(local'[f])
              /\ Exists(shared[f]) => Exists(shared'[f])]_vars

\* A letter that was in SharedOwn and not in Local when the run began is
\* in Local afterwards, after two changes made from outside (written and
\* pushed, then removed; or removed and written again in SharedOwn).
C31_Witness ==
    \E r \in Runners : \E f \in Files :
        /\ Done(r)
        /\ ~Exists(pre.local[f]) /\ Exists(pre.shared[f])
        /\ local[f] = pre.shared[f] /\ shared[f] = pre.shared[f]
        /\ BareKey(f) \in run[r].pulled
        /\ edits = MaxEdits

\* C34: no step of the engine removes a letter from Local, from the
\* community mirror or from another user's folder; a letter of SharedOwn
\* disappears only in unsync_letter of its date.
C34_NoDeletes ==
    [][EngineStep => \A f \in Files :
          /\ Exists(local[f]) => Exists(local'[f])
          /\ Exists(mirror[f]) => Exists(mirror'[f])
          /\ Exists(foreign[f]) => Exists(foreign'[f])
          /\ (Exists(shared[f]) /\ ~Exists(shared'[f])) => Unpush(f[1])]_vars

C34_Witness ==
    \E x \in Exts :
        /\ api.op = "unsync_letter" /\ api.ret
        /\ Exists(local[<<api.d, x>>]) /\ ~Exists(shared[<<api.d, x>>])
        /\ last_sync_times[BareKey(<<api.d, x>>)] = NoEntry

\* C32 (as claimed): the call of bidirectional_sync that follows an
\* unsync_letter(d) that returned True does not put a serialization of d
\* that Local still holds back into SharedOwn.
C32_UnpushIsDurable ==
    [][\A r \in Runners :
          (RunOnce(r) /\ api.op = "unsync_letter" /\ api.ret) =>
              \A x \in Exts :
                  (Exists(local[<<api.d, x>>]) /\ ~Exists(shared[<<api.d, x>>]))
                      => ~Exists(shared'[<<api.d, x>>])]_vars

\* The file sync_letter(d) copies: the .html letter of Local if there is
\* one, else the .md letter.
Chosen(d) ==
    IF Exists(local[<<d, "html">>]) THEN <<d, "html">> ELSE <<d, "md">>

C38_FailsWithoutEffect ==
    [][\A d \in Dates :
          /\ (PushOne(d) /\ (store # "ok" \/ \A x \in Exts : ~Exists(local[<<d, x>>])))
                => ~api'.ret
          /\ (Unpush(d) /\ (store # "ok" \/ \A x \in Exts : ~Exists(shared[<<d, x>>])))
                => ~api'.ret
          /\ ((PushOne(d) \/ Unpush(d)) /\ ~api'.ret)
                => /\ local' = local /\ shared' = shared
                   /\ foreign' = foreign /\ mirror' = mirror
                   /\ localBackup' = localBackup /\ sharedBackup' = sharedBackup
                   /\ last_sync_times' = last_sync_times]_vars

\* unsync_letter found no shared file and left the ledger entry alone.
C38_Witness ==
    \E x \in Exts :
        /\ api.op = "unsync_letter" /\ ~api.ret /\ store = "ok"
        /\ last_sync_times[BareKey(<<api.d, x>>)] # NoEntry

\* C35 (as claimed): when stop_sync_loop returns, the thread of _sync_loop
\* is not inside a call of bidirectional_sync.
C35_StopWaitsForRun ==
    [][StopReturns => (lpc # "calling" /\ pc["loop"] = "idle")]_vars

\* A thread of _sync_loop is alive: started and not yet out of the loop.
Alive(p) == p \notin {"off", "exited"}

\* C36 (as claimed): at no time are two threads of _sync_loop of the one
\* SyncManager alive, and start_sync_loop does not create a thread that
\* finds the stop event set (and so leaves its loop before any call of
\* bidirectional_sync).
C36_OneWorkingLoop ==
    [][/\ ~(Alive(lpc') /\ Alive(lpc2'))
       /\ StartAgain => ~stop_event]_vars

=============================================================================
